---- MODULE Spec2Model ----
(***************************************************************************)
(* Model of the quiz client in frontend/app.js: the session variables      *)
(* (sessionId, questions, currentIndex, score), the visibility of the      *)
(* cards the handlers toggle, the generate_questions and check_answer      *)
(* calls in flight, and the delayed advances scheduled with setTimeout.    *)
(* Every action is one run of an event handler or of the continuation of   *)
(* an async function after its await, which is how the single-threaded     *)
(* event loop interleaves them.                                            *)
(***************************************************************************)
EXTENDS Integers, Sequences, FiniteSets, Bags, TLC

\* ---- bounds of the model ------------------------------------------------
\* longest questions list a generate_questions response carries
MaxQuestions == 2
\* sessions loaded or loading in one behaviour
MaxSessions == 2
\* check_answer calls in flight plus delayed advances not yet fired
MaxInFlight == 2

\* ---- values -------------------------------------------------------------
\* sessionId = null before the first load
NoSession == 0

QuestionTypes == {"mcq", "fill_code", "drag_drop"}

TypeCycle == <<"mcq", "fill_code", "drag_drop">>

\* q.options of an mcq question.
McqOptions == <<"A", "B">>

\* q.options of a drag_drop question, in the orders the service may send.
OptionOrders == << <<"A", "B", "C">>, <<"B", "C", "A">>, <<"C", "B", "A">> >>

\* What the user may have typed into the fill_code input.
FillValues == {"", "x"}

\* q.options for a question of type t; o selects the order received.
OptionsOf(t, o) ==
  IF t = "mcq" THEN McqOptions
  ELSE IF t = "drag_drop" THEN OptionOrders[(o % 3) + 1]
  ELSE <<>>

Question(k, t, o) ==
  [question_id |-> k, type |-> t, options |-> OptionsOf(t, o)]

\* The questions lists the service may return: question_id is the position
\* in the list; the types run through the three rendered types from any
\* starting type, so every type occurs at every position.
QuestionLists ==
  { [k \in 1..n |-> Question(k, TypeCycle[((k + o) % 3) + 1], o)] :
      n \in 0..MaxQuestions, o \in 0..2 }

\* Quizzes made of ordering questions only, in rotating received orders.
DragQuestionLists ==
  { [k \in 1..n |-> Question(k, "drag_drop", o + k)] :
      n \in 1..MaxQuestions, o \in 0..1 }

\* No element: dragged = null, no drag in progress, a drop outside any item.
NoElement == [text |-> "", owner |-> <<0, 0>>]

\* The .draggable element showQuestion creates for option text t; owner
\* names the enableDragAndDrop call whose closure its listeners share, by
\* the session and index of the question rendered.
Element(t, sid, idx) == [text |-> t, owner |-> <<sid, idx>>]

\* What the awaited fetch + res.json() of generate_questions can produce.
\* rejected: fetch or res.json() threw; httpOk: res.ok; status: data.status;
\* isArray: Array.isArray(data.questions).
\* A call that threw has no response to look at, and only a well-formed ok
\* response carries questions.
LoadResponses ==
  { r \in [rejected : BOOLEAN, httpOk : BOOLEAN, status : {"ok", "error"},
           isArray : BOOLEAN, questions : QuestionLists] :
      /\ r.rejected => (r.httpOk /\ r.status = "ok" /\ r.isArray)
      /\ r.questions # <<>> =>
           (~r.rejected /\ r.httpOk /\ r.status = "ok" /\ r.isArray) }

\* What the awaited fetch + res.json() of check_answer can produce.
CheckResponses ==
  { r \in [rejected : BOOLEAN, httpOk : BOOLEAN, status : {"ok", "error"},
           correct : BOOLEAN] :
      r.rejected => (r.httpOk /\ r.status = "ok" /\ r.correct) }

VARIABLES
  sessionId,            \* let sessionId
  questions,            \* let questions
  currentIndex,         \* let currentIndex
  score,                \* let score
  setupCardHidden,      \* setupCard.classList has "hidden"
  quizContainerHidden,  \* quizContainer.classList has "hidden"
  resultCardHidden,     \* resultCard.classList has "hidden"
  loadingOverlayHidden, \* loadingOverlay.classList has "hidden"
  feedback,             \* feedbackEl: "hidden", "correct", "incorrect", "error"
  optionsDiv,           \* controls rendered in optionsDiv: "empty", "mcq", "fill_code"
  dragActionsHidden,    \* dragActions and dragZone classList have "hidden"
  optionButtons,        \* texts of the option buttons rendered in optionsDiv
  dragZone,             \* the .draggable children of dragZone, in document order
  dragged,              \* the non-null `dragged` of the enableDragAndDrop closures
  hiddenItems,          \* .draggable elements whose classList has "hidden"
  dragSource,           \* source node of the browser's drag in progress
  scoreText,            \* scoreText.textContent as <<score, total>>, <<>> if unset
  alertText,            \* message of the alert() raised by the last handler, "" if none
  pendingLoads,         \* generate_questions calls awaiting their response
  pendingChecks,        \* bag of check_answer calls awaiting their response
  timers,               \* delayed advances scheduled by setTimeout, in firing order
  nextSessionId,        \* the next session_id the service issues
  verified,             \* history: <<session_id, question_id>> verified correct
  discarded,            \* history: the sessions a restart click has discarded
  dropTarget,           \* history: target of the drop just handled, NoElement if no item
  lastEvent             \* history: the handler that ran last and the call it served

vars == <<sessionId, questions, currentIndex, score, setupCardHidden,
          quizContainerHidden, resultCardHidden, loadingOverlayHidden,
          feedback, optionsDiv, dragActionsHidden, scoreText, alertText,
          pendingLoads, pendingChecks, timers, nextSessionId,
          verified, discarded, lastEvent, optionButtons, dragZone, dragged,
          hiddenItems, dragSource, dropTarget>>

sessionVars == <<sessionId, questions, currentIndex, score>>
cardVars == <<setupCardHidden, quizContainerHidden, resultCardHidden>>
controlVars == <<optionsDiv, dragActionsHidden, optionButtons, dragZone>>
renderVars == <<feedback, controlVars>>
dragVars == <<dragged, hiddenItems, dragSource, dropTarget>>

\* The part of a response the handlers branch on; flag is
\* Array.isArray(data.questions) for a load and data.correct for a check.
Outcome(r, flag) ==
  [rejected |-> r.rejected, httpOk |-> r.httpOk, status |-> r.status,
   flag |-> flag]

NoOutcome == [rejected |-> FALSE, httpOk |-> TRUE, status |-> "ok", flag |-> TRUE]

Event(op, sid, qid, at, out) ==
  [op |-> op, session_id |-> sid, question_id |-> qid, at |-> at, resp |-> out]

\* ---- construction -------------------------------------------------------
Init ==
  /\ sessionId = NoSession
  /\ questions = <<>>
  /\ currentIndex = 0
  /\ score = 0
  /\ setupCardHidden = FALSE
  /\ quizContainerHidden = TRUE
  /\ resultCardHidden = TRUE
  /\ loadingOverlayHidden = TRUE
  /\ feedback = "hidden"
  /\ optionsDiv = "empty"
  /\ dragActionsHidden = TRUE
  /\ optionButtons = <<>>
  /\ dragZone = <<>>
  /\ dragged = {}
  /\ hiddenItems = {}
  /\ dragSource = NoElement
  /\ dropTarget = NoElement
  /\ scoreText = <<>>
  /\ alertText = ""
  /\ pendingLoads = 0
  /\ pendingChecks = EmptyBag
  /\ timers = <<>>
  /\ nextSessionId = 1
  /\ verified = {}
  /\ discarded = {}
  /\ lastEvent = Event("init", NoSession, 0, 0, NoOutcome)

\* ---- rendering ----------------------------------------------------------
\* showResults(): hide the quiz, show the result card, write the summary.
showResults(sc, qs) ==
  /\ quizContainerHidden' = TRUE
  /\ resultCardHidden' = FALSE
  /\ scoreText' = <<sc, Len(qs)>>
  /\ UNCHANGED renderVars

\* A rendering that gives a fill-in question no input and no submit button.
OptionsFor_NoFillControls(q) ==
  IF q.type = "mcq" THEN "mcq"
  ELSE "empty"

\* The controls showQuestion() renders in optionsDiv for a question.
OptionsFor(q) ==
  IF q.type = "mcq" THEN "mcq"
  ELSE IF q.type = "fill_code" THEN "fill_code"
  ELSE "empty"

\* showQuestion() with the given values of currentIndex, questions and score;
\* quizHid is the visibility of the quiz container on entry.
\* sid is the value of sessionId.  A drag_drop question fills the zone in
\* the order received and calls enableDragAndDrop(), whose new closure
\* starts with dragged = null; the closures of earlier calls stay
\* registered on dragZone with whatever their dragged holds.
showQuestion(idx, qs, sc, quizHid, sid) ==
  IF idx >= Len(qs)
  THEN showResults(sc, qs)
  ELSE LET q == qs[idx + 1] IN
       /\ feedback' = "hidden"
       /\ optionsDiv' = OptionsFor(q)
       /\ optionButtons' = IF q.type = "mcq" THEN q.options ELSE <<>>
       /\ dragActionsHidden' = (q.type # "drag_drop")
       /\ dragZone' = IF q.type = "drag_drop"
                      THEN [i \in 1..Len(q.options) |->
                              Element(q.options[i], sid, idx)]
                      ELSE <<>>
       /\ quizContainerHidden' = quizHid
       /\ UNCHANGED <<resultCardHidden, scoreText>>

\* ---- loadQuiz -----------------------------------------------------------
\* startBtn click: loadQuiz runs up to its await.
ClickStart ==
  /\ ~setupCardHidden
  /\ pendingLoads + (nextSessionId - 1) < MaxSessions
  /\ loadingOverlayHidden' = FALSE
  /\ pendingLoads' = pendingLoads + 1
  /\ alertText' = ""
  /\ lastEvent' = Event("start", sessionId, 0, 0, NoOutcome)
  /\ UNCHANGED <<sessionVars, cardVars, renderVars, scoreText, pendingChecks,
                 timers, nextSessionId, verified, discarded, dragVars>>

\* loadQuiz without the Array.isArray test.
LoadFails_NoArrayCheck(r) ==
  r.rejected \/ ~r.httpOk \/ r.status # "ok"

\* The condition under which loadQuiz throws.
LoadFails(r) ==
  r.rejected \/ ~r.httpOk \/ r.status # "ok" \/ ~r.isArray

\* loadQuiz without the score = 0 of a new session.
LoadQuizSuccess_KeepsScore(r) ==
  /\ pendingLoads > 0
  /\ ~LoadFails(r)
  /\ pendingLoads' = pendingLoads - 1
  /\ sessionId' = nextSessionId
  /\ nextSessionId' = nextSessionId + 1
  /\ questions' = r.questions
  /\ currentIndex' = 0
  /\ score' = score
  /\ setupCardHidden' = TRUE
  /\ showQuestion(0, r.questions, score, FALSE, nextSessionId)
  /\ loadingOverlayHidden' = TRUE
  /\ alertText' = ""
  /\ lastEvent' = Event("load_ok", nextSessionId, 0, 0, Outcome(r, r.isArray))
  /\ UNCHANGED <<pendingChecks, timers, verified, discarded, dragVars>>

\* loadQuiz after the await, try block completed.
LoadQuizSuccess(r) ==
  /\ pendingLoads > 0
  /\ ~LoadFails(r)
  /\ pendingLoads' = pendingLoads - 1
  /\ sessionId' = nextSessionId
  /\ nextSessionId' = nextSessionId + 1
  /\ questions' = r.questions
  /\ currentIndex' = 0
  /\ score' = 0
  /\ setupCardHidden' = TRUE
  /\ showQuestion(0, r.questions, 0, FALSE, nextSessionId)
  /\ loadingOverlayHidden' = TRUE
  /\ alertText' = ""
  /\ lastEvent' = Event("load_ok", nextSessionId, 0, 0, Outcome(r, r.isArray))
  /\ UNCHANGED <<pendingChecks, timers, verified, discarded, dragVars>>

\* loadQuiz after the await, catch block.
LoadQuizFailure(r) ==
  /\ pendingLoads > 0
  /\ LoadFails(r)
  /\ pendingLoads' = pendingLoads - 1
  /\ alertText' = "Failed to load quiz. Please try again."
  /\ loadingOverlayHidden' = TRUE
  /\ lastEvent' = Event("load_fail", sessionId, 0, 0, Outcome(r, r.isArray))
  /\ UNCHANGED <<sessionVars, cardVars, renderVars, scoreText, pendingChecks,
                 timers, nextSessionId, verified, discarded, dragVars>>

\* ---- submitAnswer -------------------------------------------------------
\* A submission control is rendered and visible.
CanSubmit ==
  /\ ~quizContainerHidden
  /\ (optionsDiv # "empty" \/ ~dragActionsHidden)

\* The texts of the elements of a zone: what el.textContent yields.
Texts(zone) == [i \in 1..Len(zone) |-> zone[i].text]

\* The submit-order handler passing q.options, the order received, instead
\* of the order on screen.
Answers_ReceivedOrder ==
  IF ~dragActionsHidden
  THEN {IF currentIndex < Len(questions)
        THEN questions[currentIndex + 1].options ELSE <<>>}
  ELSE IF optionsDiv = "mcq"
       THEN {optionButtons[i] : i \in 1..Len(optionButtons)}
  ELSE IF optionsDiv = "fill_code" THEN FillValues
  ELSE {}

\* The answers the rendered controls can pass to submitAnswer: the text of
\* an option button, the value of the fill-in input, or the texts of the
\* .draggable elements of the zone in document order.
Answers ==
  IF ~dragActionsHidden THEN {Texts(dragZone)}
  ELSE IF optionsDiv = "mcq"
       THEN {optionButtons[i] : i \in 1..Len(optionButtons)}
  ELSE IF optionsDiv = "fill_code" THEN FillValues
  ELSE {}

\* The check_answer request submitAnswer sends; at records currentIndex at
\* the time of the call.
Request(ans) ==
  [session_id |-> sessionId,
   question_id |-> questions[currentIndex + 1].question_id,
   user_answer |-> ans,
   at |-> currentIndex]

\* The call a request was made for, without its payload.
Call(c) ==
  [session_id |-> c.session_id, question_id |-> c.question_id, at |-> c.at]

\* Click on an option button, the Submit button or the submit-order button:
\* submitAnswer runs up to its await.  Reading q.question_id of an undefined
\* q throws inside the try block and lands in the catch block.
SubmitAnswer(ans) ==
  /\ CanSubmit
  /\ ans \in Answers
  /\ BagCardinality(pendingChecks) + Len(timers) < MaxInFlight
  /\ IF currentIndex < Len(questions)
     THEN /\ pendingChecks' = pendingChecks (+) SetToBag({Request(ans)})
          /\ UNCHANGED feedback
     ELSE /\ feedback' = "error"
          /\ UNCHANGED pendingChecks
  /\ alertText' = ""
  /\ lastEvent' = Event("submit", sessionId, 0, currentIndex, NoOutcome)
  /\ UNCHANGED <<sessionVars, cardVars, controlVars, dragVars,
                 scoreText, loadingOverlayHidden, pendingLoads, timers,
                 nextSessionId, verified, discarded>>

\* submitAnswer without the data.status test.
CheckFails_NoStatusCheck(r) ==
  r.rejected \/ ~r.httpOk

\* The condition under which submitAnswer throws after the await.
CheckFails(r) ==
  r.rejected \/ ~r.httpOk \/ r.status # "ok"

\* The correct branch without its setTimeout: scored, never advanced.
CheckAnswerCorrect_NoTimer(c, r) ==
  /\ BagIn(c, pendingChecks)
  /\ ~CheckFails(r)
  /\ r.correct
  /\ pendingChecks' = pendingChecks (-) SetToBag({c})
  /\ score' = score + 1
  /\ feedback' = "correct"
  /\ timers' = timers
  /\ verified' = verified \cup {<<c.session_id, c.question_id>>}
  /\ alertText' = ""
  /\ lastEvent' = Event("check_correct", c.session_id, c.question_id, c.at,
                        Outcome(r, r.correct))
  /\ UNCHANGED <<sessionId, questions, currentIndex, cardVars, controlVars, dragVars, scoreText, loadingOverlayHidden,
                 pendingLoads, nextSessionId, discarded>>

\* submitAnswer after the await, data.correct truthy.
CheckAnswerCorrect(c, r) ==
  /\ BagIn(c, pendingChecks)
  /\ ~CheckFails(r)
  /\ r.correct
  /\ pendingChecks' = pendingChecks (-) SetToBag({c})
  /\ score' = score + 1
  /\ feedback' = "correct"
  /\ timers' = Append(timers, Call(c))
  /\ verified' = verified \cup {<<c.session_id, c.question_id>>}
  /\ alertText' = ""
  /\ lastEvent' = Event("check_correct", c.session_id, c.question_id, c.at,
                        Outcome(r, r.correct))
  /\ UNCHANGED <<sessionId, questions, currentIndex, cardVars, controlVars, dragVars, scoreText, loadingOverlayHidden,
                 pendingLoads, nextSessionId, discarded>>

\* The incorrect branch with score++ hoisted above the test of data.correct.
CheckAnswerIncorrect_Scores(c, r) ==
  /\ BagIn(c, pendingChecks)
  /\ ~CheckFails(r)
  /\ ~r.correct
  /\ pendingChecks' = pendingChecks (-) SetToBag({c})
  /\ feedback' = "incorrect"
  /\ score' = score + 1
  /\ alertText' = ""
  /\ lastEvent' = Event("check_incorrect", c.session_id, c.question_id, c.at,
                        Outcome(r, r.correct))
  /\ UNCHANGED <<sessionId, questions, currentIndex, cardVars, controlVars, dragVars, scoreText, loadingOverlayHidden, pendingLoads,
                 timers,
                 nextSessionId, verified, discarded>>

\* The incorrect branch of a one-attempt policy: the controls are taken away.
CheckAnswerIncorrect_Lockout(c, r) ==
  /\ BagIn(c, pendingChecks)
  /\ ~CheckFails(r)
  /\ ~r.correct
  /\ pendingChecks' = pendingChecks (-) SetToBag({c})
  /\ feedback' = "incorrect"
  /\ optionsDiv' = "empty"
  /\ dragActionsHidden' = TRUE
  /\ alertText' = ""
  /\ lastEvent' = Event("check_incorrect", c.session_id, c.question_id, c.at,
                        Outcome(r, r.correct))
  /\ UNCHANGED <<sessionVars, cardVars, optionButtons, dragZone, dragVars,
                 scoreText, loadingOverlayHidden, pendingLoads, timers,
                 nextSessionId, verified, discarded>>

\* submitAnswer after the await, data.correct falsy.
CheckAnswerIncorrect(c, r) ==
  /\ BagIn(c, pendingChecks)
  /\ ~CheckFails(r)
  /\ ~r.correct
  /\ pendingChecks' = pendingChecks (-) SetToBag({c})
  /\ feedback' = "incorrect"
  /\ alertText' = ""
  /\ lastEvent' = Event("check_incorrect", c.session_id, c.question_id, c.at,
                        Outcome(r, r.correct))
  /\ UNCHANGED <<sessionVars, cardVars, controlVars, dragVars,
                 scoreText, loadingOverlayHidden, pendingLoads, timers,
                 nextSessionId, verified, discarded>>

\* submitAnswer after the await, catch block.
CheckAnswerFailure(c, r) ==
  /\ BagIn(c, pendingChecks)
  /\ CheckFails(r)
  /\ pendingChecks' = pendingChecks (-) SetToBag({c})
  /\ feedback' = "error"
  /\ alertText' = ""
  /\ lastEvent' = Event("check_fail", c.session_id, c.question_id, c.at,
                        Outcome(r, r.correct))
  /\ UNCHANGED <<sessionVars, cardVars, controlVars, dragVars,
                 scoreText, loadingOverlayHidden, pendingLoads, timers,
                 nextSessionId, verified, discarded>>

\* The setTimeout callback of a correct answer: currentIndex++, showQuestion().
AdvanceTimer ==
  /\ timers # <<>>
  /\ timers' = Tail(timers)
  /\ currentIndex' = currentIndex + 1
  /\ showQuestion(currentIndex + 1, questions, score, quizContainerHidden,
                  sessionId)
  /\ alertText' = ""
  /\ lastEvent' = Event("advance", Head(timers).session_id,
                        Head(timers).question_id, Head(timers).at, NoOutcome)
  /\ UNCHANGED <<sessionId, questions, score, setupCardHidden,
                 loadingOverlayHidden, pendingLoads, pendingChecks,
                 nextSessionId, verified, discarded, dragVars>>

\* ---- restart ------------------------------------------------------------
\* restartBtn click; the button sits in the result card.
ClickRestart ==
  /\ ~resultCardHidden
  /\ resultCardHidden' = TRUE
  /\ setupCardHidden' = FALSE
  /\ discarded' = discarded \cup {sessionId}
  /\ alertText' = ""
  /\ lastEvent' = Event("restart", sessionId, 0, 0, NoOutcome)
  /\ UNCHANGED <<sessionVars, quizContainerHidden, renderVars, scoreText,
                 loadingOverlayHidden, pendingLoads, pendingChecks, timers,
                 nextSessionId, verified, dragVars>>

\* ---- specification ------------------------------------------------------
Next ==
  \/ ClickStart
  \/ \E r \in LoadResponses : LoadQuizSuccess(r)
  \/ \E r \in LoadResponses : LoadQuizFailure(r)
  \/ \E ans \in Answers : SubmitAnswer(ans)
  \/ \E c \in BagToSet(pendingChecks), r \in CheckResponses : CheckAnswerCorrect(c, r)
  \/ \E c \in BagToSet(pendingChecks), r \in CheckResponses : CheckAnswerIncorrect(c, r)
  \/ \E c \in BagToSet(pendingChecks), r \in CheckResponses : CheckAnswerFailure(c, r)
  \/ AdvanceTimer
  \/ ClickRestart

Spec == Init /\ [][Next]_vars

\* ---- vocabulary of the properties --------------------------------------
\* The question a call was made for is the current question of the session.
IsCurrent(e) ==
  /\ e.session_id = sessionId
  /\ currentIndex < Len(questions)
  /\ e.question_id = questions[currentIndex + 1].question_id

\* check_answer calls in flight and delayed advances pending for session s.
InFlight(s) ==
  Cardinality({k \in 1..Len(timers) : timers[k].session_id = s})
    + BagCardinality([c \in {d \in BagToSet(pendingChecks) : d.session_id = s}
                        |-> pendingChecks[c]])

SessionIds == 1..MaxSessions

\* A response that counts as a failed call: network error, non-ok HTTP
\* status, or status != "ok".
FailedCall(o) == o.rejected \/ ~o.httpOk \/ o.status # "ok"

\* ---- C1 -----------------------------------------------------------------
\* C1: in every reachable state 0 <= currentIndex <= length(questions).
C1_IndexWithinQuestions ==
  0 <= currentIndex /\ currentIndex <= Len(questions)

\* ---- C2 -----------------------------------------------------------------
\* C2 as stated: in every state, the states between a correct response and
\* its delayed advance included, score <= currentIndex.
C2_ScoreAtMostIndex ==
  score <= currentIndex

\* C2 as amended: score never exceeds currentIndex by more than the number
\* of delayed advances that are scheduled and have not fired, so that
\* score <= currentIndex whenever no delayed advance is pending.
C2_ScoreAtMostIndexPlusPending ==
  score <= currentIndex + Len(timers)

\* A correct answer has just been scored and its advance has not fired yet:
\* score is ahead of currentIndex by exactly the pending advance.
C2_Witness ==
  /\ lastEvent.op = "check_correct"
  /\ Len(timers) = 1
  /\ score = currentIndex + 1

\* ---- C3 -----------------------------------------------------------------
\* C3: handling a check_answer response with correct = false leaves
\* currentIndex, score, sessionId and questions unchanged.
C3_IncorrectLeavesSession ==
  [][(lastEvent'.op \in {"check_correct", "check_incorrect", "check_fail"}
        /\ ~FailedCall(lastEvent'.resp) /\ ~lastEvent'.resp.flag)
       => UNCHANGED <<currentIndex, score, sessionId, questions>>]_vars

\* An incorrect verdict has been handled and the question it was given for
\* is still the current one, with its controls on screen.
C3_Witness ==
  /\ lastEvent.op = "check_incorrect"
  /\ feedback = "incorrect"
  /\ IsCurrent(lastEvent)
  /\ CanSubmit

\* ---- C4 -----------------------------------------------------------------
\* C4: a submitted answer verified correct raises score by exactly 1, and
\* when its delayed advance fires currentIndex is exactly 1 more than it was
\* when the answer was submitted; after the last question the results are
\* shown, otherwise the quiz stays on screen.
C4_CorrectScoresAndAdvancesByOne ==
  [][/\ (lastEvent'.op \in {"check_correct", "check_incorrect", "check_fail"}
           /\ ~FailedCall(lastEvent'.resp) /\ lastEvent'.resp.flag)
          => score' = score + 1
     /\ lastEvent'.op = "advance"
          => /\ currentIndex' = lastEvent'.at + 1
             /\ IF lastEvent'.at + 1 >= Len(questions')
                THEN quizContainerHidden' /\ ~resultCardHidden'
                ELSE ~quizContainerHidden']_vars

\* ---- C5 -----------------------------------------------------------------
\* C5: currentIndex moves past a question of the active session only after
\* a correct verification of that question in that session.
C5_AdvanceOnlyPastVerified ==
  [][(currentIndex' > currentIndex /\ currentIndex < Len(questions))
       => <<sessionId, questions[currentIndex + 1].question_id>> \in verified]_vars

\* ---- C6 -----------------------------------------------------------------
\* C6: per session at most one submission is pending, counting the
\* check_answer calls in flight and the delayed advances not yet fired.
C6_OneSubmissionInFlight ==
  \A s \in SessionIds : InFlight(s) <= 1

\* ---- C7 -----------------------------------------------------------------
\* C7: handling a failed generate_questions call (network error, non-ok
\* HTTP status, status != "ok", questions not an array) leaves sessionId,
\* questions, currentIndex and score as they were, leaves the setup card and
\* the quiz container as they were, and shows a failure message.
C7_LoadFailureLeavesState ==
  [][(lastEvent'.op \in {"load_ok", "load_fail"}
        /\ (FailedCall(lastEvent'.resp) \/ ~lastEvent'.resp.flag))
       => /\ UNCHANGED <<sessionId, questions, currentIndex, score>>
          /\ UNCHANGED <<setupCardHidden, quizContainerHidden>>
          /\ alertText' # ""]_vars

\* A load has failed on an error status: no session exists, the setup card
\* is on screen, the quiz is hidden and the alert has been raised.
C7_Witness ==
  /\ lastEvent.op = "load_fail"
  /\ lastEvent.resp.status = "error"
  /\ sessionId = NoSession
  /\ ~setupCardHidden
  /\ quizContainerHidden
  /\ alertText # ""

\* ---- C8 -----------------------------------------------------------------
\* C8: handling a failed check_answer call leaves currentIndex, score,
\* sessionId and questions unchanged, schedules no delayed advance, shows an
\* error message, and leaves the submission controls usable.
C8_CheckFailureLeavesState ==
  [][(lastEvent'.op \in {"check_correct", "check_incorrect", "check_fail"}
        /\ FailedCall(lastEvent'.resp))
       => /\ UNCHANGED <<currentIndex, score, sessionId, questions>>
          /\ UNCHANGED timers
          /\ feedback' = "error"
          /\ (CanSubmit => CanSubmit')]_vars

\* A check has failed on an error status while its question is current:
\* the error is shown and the question can be submitted again.
C8_Witness ==
  /\ lastEvent.op = "check_fail"
  /\ lastEvent.resp.status = "error"
  /\ IsCurrent(lastEvent)
  /\ feedback = "error"
  /\ timers = <<>>
  /\ CanSubmit

\* ---- C9 -----------------------------------------------------------------
\* The state of the session UI read off the screen.
UIState ==
  IF ~loadingOverlayHidden /\ ~setupCardHidden /\ quizContainerHidden
       /\ resultCardHidden THEN "Loading"
  ELSE IF loadingOverlayHidden /\ ~setupCardHidden /\ quizContainerHidden
       /\ resultCardHidden THEN "Setup"
  ELSE IF loadingOverlayHidden /\ setupCardHidden /\ ~quizContainerHidden
       /\ resultCardHidden THEN "InProgress"
  ELSE IF loadingOverlayHidden /\ setupCardHidden /\ quizContainerHidden
       /\ ~resultCardHidden THEN "Complete"
  ELSE "Other"

ListedTransitions ==
  { <<"Setup", "Loading">>, <<"Loading", "InProgress">>,
    <<"Loading", "Setup">>, <<"InProgress", "InProgress">>,
    <<"InProgress", "Complete">>, <<"Complete", "Setup">> }

\* C9: the UI is always in Setup, Loading, InProgress or Complete, and
\* changes state only along the listed transitions.
C9_OnlyListedTransitions ==
  [][/\ UIState' \in {"Setup", "Loading", "InProgress", "Complete"}
     /\ UIState' # UIState => <<UIState, UIState'>> \in ListedTransitions]_vars

\* ---- C10 ----------------------------------------------------------------
\* C10: a restart hides the result card and shows the setup card; a
\* successful load starts at currentIndex = 0 and score = 0; and no response
\* or delayed advance of a session discarded by a restart changes the
\* currentIndex or score of a later session.
C10_RestartGivesFreshSession ==
  [][/\ lastEvent'.op = "restart" => (resultCardHidden' /\ ~setupCardHidden')
     /\ (lastEvent'.op = "load_ok" /\ discarded # {})
          => (currentIndex' = 0 /\ score' = 0)
     /\ (lastEvent'.op \in {"check_correct", "check_incorrect", "check_fail",
                            "advance"}
           /\ lastEvent'.session_id \in discarded
           /\ lastEvent'.session_id # sessionId)
          => UNCHANGED <<currentIndex, score>>]_vars

\* ---- C11 ----------------------------------------------------------------
\* C11: a load response accepted as successful carries a non-empty list and
\* leaves the session InProgress at currentIndex = 0, score = 0 with a
\* question to answer; an ok response with an empty list never puts the UI
\* into InProgress or Complete.
C11_SessionNeedsQuestions ==
  [][(lastEvent'.op \in {"load_ok", "load_fail"}
        /\ ~FailedCall(lastEvent'.resp) /\ lastEvent'.resp.flag)
       => IF questions' = <<>>
          THEN UIState' \notin {"InProgress", "Complete"}
          ELSE /\ currentIndex' = 0
               /\ score' = 0
               /\ ~quizContainerHidden'
               /\ CanSubmit']_vars

\* ---- C12 ----------------------------------------------------------------
\* The user submits only when no check_answer call and no delayed advance
\* is pending: each submission is handled to completion before the next.
SerialSubmit(ans) ==
  /\ pendingChecks = EmptyBag
  /\ timers = <<>>
  /\ SubmitAnswer(ans)

SerialNext ==
  \/ ClickStart
  \/ \E r \in LoadResponses : LoadQuizSuccess(r)
  \/ \E r \in LoadResponses : LoadQuizFailure(r)
  \/ \E ans \in Answers : SerialSubmit(ans)
  \/ \E c \in BagToSet(pendingChecks), r \in CheckResponses : CheckAnswerCorrect(c, r)
  \/ \E c \in BagToSet(pendingChecks), r \in CheckResponses : CheckAnswerIncorrect(c, r)
  \/ \E c \in BagToSet(pendingChecks), r \in CheckResponses : CheckAnswerFailure(c, r)
  \/ AdvanceTimer
  \/ ClickRestart

SpecSerial == Init /\ [][SerialNext]_vars

\* The first k questions of the active session have been verified correct.
AnsweredUpTo(k) ==
  \A j \in 1..k : <<sessionId, questions[j].question_id>> \in verified

\* C12: with submissions handled one at a time, once the first k questions
\* of the loaded session have been answered correctly and nothing is
\* pending, score = currentIndex = k; for k < n question k + 1 is on screen
\* to be answered, and for k = n the quiz is hidden and the summary reads
\* "You scored n / n".
C12_AllCorrectScoresAll ==
  (/\ sessionId # NoSession
   /\ pendingChecks = EmptyBag
   /\ timers = <<>>
   /\ currentIndex <= Len(questions)
   /\ AnsweredUpTo(currentIndex))
  => /\ score = currentIndex
     /\ IF currentIndex = Len(questions)
        THEN /\ scoreText = <<Len(questions), Len(questions)>>
             /\ quizContainerHidden
             /\ lastEvent.op \in {"advance", "load_ok"} => ~resultCardHidden
        ELSE /\ CanSubmit
             /\ optionsDiv = OptionsFor(questions[currentIndex + 1])
             /\ dragActionsHidden = (questions[currentIndex + 1].type # "drag_drop")

\* The scenario of the claim at its end: Q1 multiple choice and Q2 fill-in
\* both answered correctly, the summary on screen reads 2 / 2.
C12_Witness ==
  /\ Len(questions) = 2
  /\ questions[1].type = "mcq"
  /\ questions[2].type = "fill_code"
  /\ AnsweredUpTo(2)
  /\ lastEvent.op = "advance"
  /\ currentIndex = 2
  /\ score = 2
  /\ scoreText = <<2, 2>>
  /\ ~resultCardHidden

\* ---- drag and drop ------------------------------------------------------
Range(f) == {f[i] : i \in DOMAIN f}

\* The children of a zone without node.
Remove(zone, node) == SelectSeq(zone, LAMBDA x : x # node)

IndexOf(zone, node) == CHOOSE i \in 1..Len(zone) : zone[i] = node

\* dragZone.insertBefore(node, child): node is taken out of the zone if it
\* is in it and put in front of child; insertBefore(node, node) leaves the
\* zone as it is.
InsertBefore(zone, node, child) ==
  IF node = child THEN zone
  ELSE LET z == Remove(zone, node)
           i == IndexOf(z, child)
       IN SubSeq(z, 1, i - 1) \o <<node>> \o SubSeq(z, i, Len(z))

\* dragZone.appendChild(node).
AppendChild(zone, node) == Append(Remove(zone, node), node)

\* Closure a was created before closure b.
Earlier(a, b) == a[1] < b[1] \/ (a[1] = b[1] /\ a[2] < b[2])

\* The drop listeners registered on dragZone, one per enableDragAndDrop
\* call, run in the order registered; each moves the dragged of its own
\* closure if that is not null.  ds holds the non-null ones.
RECURSIVE RunDropListeners(_, _, _)
RunDropListeners(zone, ds, target) ==
  IF ds = {} THEN zone
  ELSE LET d == CHOOSE x \in ds : \A y \in ds \ {x} : Earlier(x.owner, y.owner)
           z == IF target # NoElement THEN InsertBefore(zone, d, target)
                ELSE AppendChild(zone, d)
       IN RunDropListeners(z, ds \ {d}, target)

ZoneVisible == ~quizContainerHidden /\ ~dragActionsHidden

noDragFrame ==
  UNCHANGED <<sessionVars, cardVars, feedback, optionsDiv, dragActionsHidden,
              optionButtons, scoreText, loadingOverlayHidden, pendingLoads,
              pendingChecks, timers, nextSessionId, verified, discarded>>

\* dragstart on a .draggable element: dragged = el, and the timer of delay 0
\* that hides el.
DragStart(el) ==
  /\ ZoneVisible
  /\ dragSource = NoElement
  /\ el \in Range(dragZone) \ hiddenItems
  /\ dragged' = {d \in dragged : d.owner # el.owner} \cup {el}
  /\ hiddenItems' = hiddenItems \cup {el}
  /\ dragSource' = el
  /\ alertText' = ""
  /\ lastEvent' = Event("dragstart", el.owner[1], 0, el.owner[2], NoOutcome)
  /\ noDragFrame
  /\ dropTarget' = NoElement
  /\ UNCHANGED dragZone

\* drop on dragZone, of an item of the page or of something dragged in from
\* outside it; target is e.target.closest(".draggable").
Drop(target) ==
  /\ ZoneVisible
  /\ target \in (Range(dragZone) \ hiddenItems) \cup {NoElement}
  /\ dragZone' = RunDropListeners(dragZone, dragged, target)
  /\ dropTarget' = target
  /\ alertText' = ""
  /\ lastEvent' = Event("drop", sessionId, 0, currentIndex, NoOutcome)
  /\ noDragFrame
  /\ UNCHANGED <<dragged, hiddenItems, dragSource>>

\* dragend on the source element: its closure's dragged is shown again and
\* set to null.
DragEnd ==
  /\ dragSource # NoElement
  /\ dragged' = {d \in dragged : d.owner # dragSource.owner}
  /\ hiddenItems' = hiddenItems \ {d \in dragged : d.owner = dragSource.owner}
  /\ dragSource' = NoElement
  /\ alertText' = ""
  /\ lastEvent' = Event("dragend", dragSource.owner[1], 0, dragSource.owner[2],
                        NoOutcome)
  /\ noDragFrame
  /\ dropTarget' = NoElement
  /\ UNCHANGED dragZone

\* The drag ends after its source element was removed from the document by
\* a re-render (dragZone.innerHTML = ""): browsers that do not dispatch
\* dragend to a removed source leave its closure with dragged set.
DragEndLost ==
  /\ dragSource # NoElement
  /\ dragSource \notin Range(dragZone)
  /\ dragSource' = NoElement
  /\ alertText' = ""
  /\ lastEvent' = Event("dragend_lost", dragSource.owner[1], 0,
                        dragSource.owner[2], NoOutcome)
  /\ noDragFrame
  /\ dropTarget' = NoElement
  /\ UNCHANGED <<dragZone, dragged, hiddenItems>>

\* Well-formed ok responses carrying a quiz of ordering questions.
DragLoadResponses ==
  { [rejected |-> FALSE, httpOk |-> TRUE, status |-> "ok", isArray |-> TRUE,
     questions |-> qs] : qs \in DragQuestionLists }

\* One quiz is loaded.
FirstStart ==
  /\ nextSessionId = 1
  /\ pendingLoads = 0
  /\ ClickStart

\* A click on submit order, which needs the pointer free of a drag.
DragSubmit(ans) ==
  /\ dragSource = NoElement
  /\ SerialSubmit(ans)

\* A quiz of ordering questions, answered one submission at a time, with
\* the drag-and-drop events of its zone.  Every check_answer call is
\* answered with a verdict; the failing calls, which touch only the feedback
\* line and the alert, are exercised under Spec.
DragNext ==
  \/ FirstStart
  \/ \E r \in DragLoadResponses : LoadQuizSuccess(r)
  \/ \E el \in Range(dragZone) : DragStart(el)
  \/ \E target \in Range(dragZone) \cup {NoElement} : Drop(target)
  \/ DragEnd
  \/ DragEndLost
  \/ \E ans \in Answers : DragSubmit(ans)
  \/ \E c \in BagToSet(pendingChecks), r \in CheckResponses : CheckAnswerCorrect(c, r)
  \/ \E c \in BagToSet(pendingChecks), r \in CheckResponses : CheckAnswerIncorrect(c, r)
  \/ AdvanceTimer

SpecDrag == Init /\ [][DragNext]_vars

\* ---- C13 ----------------------------------------------------------------
\* C13: the check_answer request sent by a click on submit order carries as
\* user_answer the texts of the items of the drag zone, in the order the
\* zone shows them at the click.
C13_SubmitsDisplayedOrder ==
  [][(lastEvent'.op = "submit" /\ ~dragActionsHidden
        /\ currentIndex < Len(questions))
       => \E c \in BagToSet(pendingChecks') :
            /\ CopiesIn(c, pendingChecks') = CopiesIn(c, pendingChecks) + 1
            /\ Len(c.user_answer) = Len(dragZone)
            /\ \A i \in 1..Len(dragZone) : c.user_answer[i] = dragZone[i].text]_vars

\* The example of the claim: options received as [A, B, C], reordered on
\* screen to [C, A, B], and a request carrying ["C", "A", "B"] in flight.
C13_Witness ==
  /\ lastEvent.op = "submit"
  /\ currentIndex < Len(questions)
  /\ questions[currentIndex + 1].options = <<"A", "B", "C">>
  /\ Texts(dragZone) = <<"C", "A", "B">>
  /\ \E c \in BagToSet(pendingChecks) : c.user_answer = <<"C", "A", "B">>

\* ---- C14 ----------------------------------------------------------------
\* C14: a drop while an item is being dragged moves only that item, to
\* immediately before the target item or to the end when the target is not
\* an item; a drop with no item being dragged leaves the order unchanged.
C14_DropMovesOnlyDragged ==
  [][lastEvent'.op = "drop"
       => IF dragSource = NoElement
          THEN dragZone' = dragZone
          ELSE /\ Remove(dragZone', dragSource) = Remove(dragZone, dragSource)
               /\ Len(dragZone') > 0
               /\ IF dropTarget' = NoElement
                  THEN dragZone'[Len(dragZone')] = dragSource
                  ELSE \/ dropTarget' = dragSource
                       \/ \E i \in 1..(Len(dragZone') - 1) :
                            /\ dragZone'[i] = dragSource
                            /\ dragZone'[i + 1] = dropTarget']_vars

\* ---- C15 ----------------------------------------------------------------
\* C15: while a loaded session is InProgress (the quiz is on screen) no
\* event replaces questions or sessionId or takes currentIndex or score
\* back.
C15_SessionFixedWhileInProgress ==
  [][~quizContainerHidden
       => /\ questions' = questions
          /\ sessionId' = sessionId
          /\ currentIndex' >= currentIndex
          /\ score' >= score]_vars

\* ---- C16 ----------------------------------------------------------------
\* C16: the loading indicator is visible exactly while a generate_questions
\* call is in flight, and a check_answer call never shows it.
C16_OverlayIffLoading ==
  [][/\ (~loadingOverlayHidden') <=> (pendingLoads' > 0)
     /\ lastEvent'.op = "submit" => UNCHANGED loadingOverlayHidden]_vars

\* ---- C17 ----------------------------------------------------------------
\* C17: an incorrect verdict or a failed check_answer call leaves the
\* session, the cards, the rendered controls and the pending advances as
\* they were, so the same question can be submitted again any number of
\* times; a correct verdict that follows such attempts scores 1 and
\* schedules one advance, and the advance moves currentIndex by 1.
C17_RetriesUnlimited ==
  [][/\ (lastEvent'.op \in {"check_correct", "check_incorrect", "check_fail"}
           /\ (FailedCall(lastEvent'.resp) \/ ~lastEvent'.resp.flag))
          => /\ UNCHANGED <<sessionVars, cardVars, controlVars, timers>>
             /\ CanSubmit => CanSubmit'
     /\ (lastEvent'.op \in {"check_correct", "check_incorrect", "check_fail"}
           /\ ~FailedCall(lastEvent'.resp) /\ lastEvent'.resp.flag
           /\ feedback \in {"incorrect", "error"})
          => /\ score' = score + 1
             /\ Len(timers') = Len(timers) + 1
             /\ UNCHANGED <<currentIndex, controlVars, cardVars>>
     /\ lastEvent'.op = "advance" => currentIndex' = currentIndex + 1]_vars

\* After an unsuccessful attempt on the current question (its message is
\* still shown) a further submission for that question has been issued.
C17_Witness ==
  /\ lastEvent.op = "submit"
  /\ feedback \in {"incorrect", "error"}
  /\ CanSubmit
  /\ \E c \in BagToSet(pendingChecks) : IsCurrent(c)

\* ---- C18 ----------------------------------------------------------------
\* C18: whenever the results summary is shown, the displayed score is
\* between 0 and the number of questions of the session.
C18_DisplayedScoreWithinLength ==
  ~resultCardHidden
    => /\ scoreText # <<>>
       /\ 0 <= scoreText[1]
       /\ scoreText[1] <= scoreText[2]

\* ---- C19 ----------------------------------------------------------------
\* C19: while an ordering question is displayed, the drag zone holds exactly
\* the options the question was delivered with, each exactly once, as the
\* items created for this rendering.
C19_ZoneIsPermutationOfOptions ==
  (ZoneVisible /\ currentIndex < Len(questions))
    => LET q == questions[currentIndex + 1]
       IN  /\ Len(dragZone) = Len(q.options)
           /\ Range(Texts(dragZone)) = Range(q.options)
           /\ \A i \in 1..Len(dragZone) :
                dragZone[i].owner = <<sessionId, currentIndex>>

\* ---- C20 ----------------------------------------------------------------
\* The user keeps answering, the service eventually verifies a submission
\* as correct, and the delayed advance fires.
SpecLive ==
  /\ Init
  /\ [][SerialNext]_vars
  /\ WF_vars(\E ans \in Answers : SerialSubmit(ans))
  /\ SF_vars(\E c \in BagToSet(pendingChecks), r \in CheckResponses :
               CheckAnswerCorrect(c, r))
  /\ WF_vars(AdvanceTimer)

====
